---- MODULE Spec2Model ----
(***************************************************************************)
(* Client-side session/token lifecycle of the Email AI Assistant:         *)
(* the AuthProvider of src/context/AuthContext.tsx (token store, session  *)
(* restorer, logout) as a state machine over browser storage, the axios   *)
(* default headers, the provider's React state and the requests in        *)
(* flight.                                                                 *)
(***************************************************************************)
EXTENDS Integers, Sequences, FiniteSets, TLC

\* ---------------------------------------------------------------------
\* Values
\* ---------------------------------------------------------------------

\* JavaScript null (storage miss, user: User | null, error: string | null)
Null == "<null>"

\* JavaScript undefined (setToken called without a value)
Undefined == "<undefined>"

\* the empty string
Empty == ""

\* opaque bearer values issued by the backend
Tokens == {"t1", "t2"}

\* user objects the backend may return in the envelope of /api/auth/me
Users == {"u1", "u2"}

\* number of setToken calls explored (also the range of Date.now())
MaxSetToken == 2

\* number of runs of the checkAuth effect explored
MaxRuns == 2

\* number of logout calls explored
MaxLogout == 1

\* fetchEmails calls of one dashboard
MaxEmailCalls == 2

\* times the effect of the AuthCallback screen runs again
MaxReruns == 1

\* what a caller may hand to setToken
TokenArgs == Tokens \cup {Empty, Undefined}

\* outcomes of a GET /api/auth/me round trip
Outcomes == {"ok_true", "ok_false", "s401", "s403", "s500", "neterr"}

\* the storage write of setToken that throws (QuotaExceededError), if any
ThrowPoints == {"none", "token", "token_backup", "token_timestamp"}

VARIABLES
    localStorage,    \* window.localStorage: key -> value, absent keys not in DOMAIN
    sessionStorage,  \* window.sessionStorage
    axiosHeaders,    \* axios.defaults.headers.common
    user,            \* useState<User | null>
    loading,         \* useState(true)
    error,           \* useState<string | null>
    tokenSet,        \* useState(false), the dependency of the checkAuth effect
    effectDeps,      \* dependencies the effect last ran with; <<>> before mount
    runs,            \* the runs of checkAuth: position, bearer sent, round trips
    logouts,         \* logout calls: made, and awaiting the response
    now,             \* Date.now(), advanced by every setToken call
    cb,              \* the AuthCallback screen: revision, URL token, position,
                     \* its error state, its navigations and setToken calls
    ev               \* the operation that produced the current state

vars == <<localStorage, sessionStorage, axiosHeaders, user, loading, error,
          tokenSet, effectDeps, runs, logouts, now, cb, ev>>

\* ---------------------------------------------------------------------
\* Storage and header primitives
\* ---------------------------------------------------------------------

\* Storage.getItem: the value, or null when the key is absent
getItem(s, k) == IF k \in DOMAIN s THEN s[k] ELSE Null

\* Storage.setItem
setItem(s, k, v) == [x \in (DOMAIN s) \cup {k} |-> IF x = k THEN v ELSE s[x]]

\* Storage.removeItem / delete obj[k]
removeItem(s, k) == [x \in (DOMAIN s) \ {k} |-> s[x]]

\* the storage without any entry
EmptyStore == [x \in {} |-> Null]

\* `Bearer ${token}`
Bearer(t) == <<"Bearer", t>>

\* what debugLog leaves under "auth_debug_logs": the JSON text of the last
\* entries, its content not modelled
DebugLogs == "[logs]"

\* debugLog (lines 24-42): appends to the log kept in localStorage (a write
\* that throws is caught inside debugLog and would leave the entry as it was)
debugLog(ls) == setItem(ls, "auth_debug_logs", DebugLogs)

\* mutant of Falsy: only undefined is rejected
Falsy_m(t) == t = Undefined \/ t = Null

\* JavaScript falsiness of a string | null | undefined value: `!token`
Falsy(t) == t = Empty \/ t = Undefined \/ t = Null

\* the event record kept in ev
Event(op, run, arg, outcome) ==
    [op |-> op, run |-> run, arg |-> arg, outcome |-> outcome]

\* the runs of checkAuth started so far are 1..Started
Started == Cardinality({r \in DOMAIN runs : runs[r].pc # "idle"})

IdleRun == [pc |-> "idle", bearer |-> <<>>, reqs |-> 0]

\* ---------------------------------------------------------------------
\* Init: a page load.  localStorage outlives the page and is shared by
\* the tabs of the origin, sessionStorage outlives a reload of the tab,
\* so either may hold a token of an earlier session.
\* ---------------------------------------------------------------------

InitStores ==
    /\ \E t \in Tokens \cup {Null}, stamped \in BOOLEAN, logged \in BOOLEAN :
          localStorage =
             LET a == IF t = Null THEN EmptyStore
                      ELSE setItem(EmptyStore, "token", t)
                 b == IF stamped THEN setItem(a, "token_timestamp", 0) ELSE a
             IN IF logged THEN debugLog(b) ELSE b
    /\ \E b \in Tokens \cup {Null} :
          sessionStorage = IF b = Null THEN EmptyStore
                           ELSE setItem(EmptyStore, "token_backup", b)

\* the fields of User the dashboard reads (AuthContext.tsx 9-11): none set
NoProfile == [authProvider |-> Null, google |-> FALSE, microsoft |-> FALSE]

\* the screen below the provider in its position pc: the AuthCallback screen
\* (url, nav, calls, threw; the timers scheduled behind the one in pc, the
\* provider state of the render its effect last ran in, the number of times
\* the effect ran again) or the Dashboard (profile of the user, active
\* provider, the mailbox last requested, number of fetchEmails calls)
Callback(variant, url, pc) ==
    [variant |-> variant, url |-> url, pc |-> pc, error |-> Null,
     nav |-> <<>>, calls |-> <<>>, threw |-> FALSE,
     profile |-> NoProfile, active |-> Null, mail |-> Null, mails |-> 0,
     queue |-> <<>>, seen |-> <<Null, TRUE, Null, FALSE>>, reruns |-> 0]

\* the page was not loaded on /auth-callback
NoCallback == Callback("none", Null, "none")

InitProvider ==
    /\ InitStores
    /\ axiosHeaders = EmptyStore
    /\ user = Null
    /\ loading = TRUE
    /\ error = Null
    /\ tokenSet = FALSE
    /\ effectDeps = <<>>
    /\ runs = [r \in 1..MaxRuns |-> IdleRun]
    /\ logouts = [calls |-> 0, inflight |-> 0]
    /\ now = 0
    /\ ev = Event("init", 0, Null, "none")

Init ==
    /\ InitProvider
    /\ cb = NoCallback

\* ---------------------------------------------------------------------
\* Token store: setToken (AuthContext.tsx 66-98)
\* ---------------------------------------------------------------------

\* mutant of SetTokenStores: the token goes to the backup store only
SetTokenStores_m(token, throwAt, ls, ss, hdr, flag, time) ==
    IF throwAt = "token"
    THEN [ls |-> ls, ss |-> ss, hdr |-> hdr, flag |-> flag]
    ELSE [ls |-> setItem(ls, "token_timestamp", time),
          ss |-> setItem(ss, "token_backup", token),
          hdr |-> setItem(hdr, "Authorization", Bearer(token)),
          flag |-> ~flag]

\* the try block of setToken, lines 76-92, left at the write that throws:
\* localStorage "token", sessionStorage "token_backup", localStorage
\* "token_timestamp", the axios default header, the toggle of tokenSet
SetTokenStores(token, throwAt, ls, ss, hdr, flag, time) ==
    LET ls1 == setItem(ls, "token", token)
        ss1 == setItem(ss, "token_backup", token)
        ls2 == setItem(ls1, "token_timestamp", time)
    IN  CASE throwAt = "token" ->
                [ls |-> ls, ss |-> ss, hdr |-> hdr, flag |-> flag]
          [] throwAt = "token_backup" ->
                [ls |-> ls1, ss |-> ss, hdr |-> hdr, flag |-> flag]
          [] throwAt = "token_timestamp" ->
                [ls |-> ls1, ss |-> ss1, hdr |-> hdr, flag |-> flag]
          [] OTHER ->
                [ls |-> ls2, ss |-> ss1,
                 hdr |-> setItem(hdr, "Authorization", Bearer(token)),
                 flag |-> ~flag]

\* setToken(token): the guard of line 67, then the try block; the catch of
\* line 95 swallows the exception of a storage write
SetTokenCall(token, throwAt, ls, ss, hdr, flag, time) ==
    IF Falsy(token)
    THEN [ls |-> debugLog(ls), ss |-> ss, hdr |-> hdr, flag |-> flag]
    ELSE LET w == SetTokenStores(token, throwAt, ls, ss, hdr, flag, time)
         IN  [w EXCEPT !.ls = debugLog(w.ls)]

\* a call of setToken by a consumer of the context
SetToken(token, throwAt) ==
    /\ now < MaxSetToken
    /\ now' = now + 1
    /\ Falsy(token) => throwAt = "none"
    /\ LET w == SetTokenCall(token, throwAt, localStorage,
                             sessionStorage, axiosHeaders, tokenSet, now + 1)
       IN  /\ localStorage' = w.ls
           /\ sessionStorage' = w.ss
           /\ axiosHeaders' = w.hdr
           /\ tokenSet' = w.flag
    /\ ev' = Event("setToken", 0, token, throwAt)
    /\ UNCHANGED <<user, loading, error, effectDeps, runs, logouts, cb>>

\* ---------------------------------------------------------------------
\* Session restorer: the checkAuth effect (101-139) and the synchronous
\* head of fetchCurrentUser (142-173)
\* ---------------------------------------------------------------------

\* fetchCurrentUser up to the await of line 173, given the storage it
\* reads: setLoading(true), the read of the token, the early return of
\* lines 149-153, else the fetch carrying `Bearer ${token}`
FetchStart(ls) ==
    LET token == getItem(ls, "token")
    IN  IF Falsy(token)
        THEN [loading |-> FALSE,
              run |-> [pc |-> "done", bearer |-> <<>>, reqs |-> 0]]
        ELSE [loading |-> TRUE,
              run |-> [pc |-> "fetch", bearer |-> Bearer(token), reqs |-> 1]]

\* mutant of CheckAuthNone: the restorer fetches the identity without a token
CheckAuthNone_m(r) ==
    /\ loading' = TRUE
    /\ runs' = [runs EXCEPT ![r] = [pc |-> "fetch", bearer |-> <<>>, reqs |-> 1]]
    /\ ev' = Event("checkAuth", r, Null, "none")
    /\ localStorage' = debugLog(localStorage)
    /\ UNCHANGED axiosHeaders

\* mutant of CheckAuthNone: the branch returns without setLoading(false)
CheckAuthNone_l(r) ==
    /\ loading' = loading
    /\ runs' = [runs EXCEPT ![r] = [pc |-> "done", bearer |-> <<>>, reqs |-> 0]]
    /\ ev' = Event("checkAuth", r, Null, "none")
    /\ localStorage' = debugLog(localStorage)
    /\ UNCHANGED axiosHeaders

\* lines 122-124: no token in any storage
CheckAuthNone(r) ==
    /\ loading' = FALSE
    /\ runs' = [runs EXCEPT ![r] = [pc |-> "done", bearer |-> <<>>, reqs |-> 0]]
    /\ ev' = Event("checkAuth", r, Null, "none")
    /\ localStorage' = debugLog(localStorage)
    /\ UNCHANGED axiosHeaders

\* mutant of CheckAuthBackup: the backup is used for the header but is not
\* promoted to canonical storage
CheckAuthBackup_m(r, backupToken, throws) ==
    IF throws
    THEN /\ loading' = FALSE
         /\ runs' = [runs EXCEPT ![r] = [pc |-> "done", bearer |-> <<>>, reqs |-> 0]]
         /\ ev' = Event("checkAuth", r, backupToken, "backup_throw")
         /\ localStorage' = debugLog(localStorage)
         /\ UNCHANGED axiosHeaders
    ELSE LET f == FetchStart(localStorage)
         IN  /\ localStorage' = debugLog(localStorage)
             /\ axiosHeaders' = setItem(axiosHeaders, "Authorization",
                                        Bearer(backupToken))
             /\ loading' = f.loading
             /\ runs' = [runs EXCEPT ![r] = f.run]
             /\ ev' = Event("checkAuth", r, backupToken, "backup")

\* lines 111-120: recovery from sessionStorage; the write of line 114 may
\* throw, which lands in the catch of lines 132-135
CheckAuthBackup(r, backupToken, throws) ==
    IF throws
    THEN /\ loading' = FALSE
         /\ runs' = [runs EXCEPT ![r] = [pc |-> "done", bearer |-> <<>>, reqs |-> 0]]
         /\ ev' = Event("checkAuth", r, backupToken, "backup_throw")
         /\ localStorage' = debugLog(localStorage)
         /\ UNCHANGED axiosHeaders
    ELSE LET ls1 == setItem(localStorage, "token", backupToken)
             f == FetchStart(ls1)
         IN  /\ localStorage' = debugLog(ls1)
             /\ axiosHeaders' = setItem(axiosHeaders, "Authorization",
                                        Bearer(backupToken))
             /\ loading' = f.loading
             /\ runs' = [runs EXCEPT ![r] = f.run]
             /\ ev' = Event("checkAuth", r, backupToken, "backup")

\* mutant of CheckAuthCanonical: the identity fetch carries the default
\* credential as it was before the run instead of the token read from storage
CheckAuthCanonical_m(r, token) ==
    /\ axiosHeaders' = setItem(axiosHeaders, "Authorization", Bearer(token))
    /\ loading' = TRUE
    /\ runs' = [runs EXCEPT ![r] =
                  [pc |-> "fetch",
                   bearer |-> IF "Authorization" \in DOMAIN axiosHeaders
                              THEN axiosHeaders["Authorization"] ELSE <<>>,
                   reqs |-> 1]]
    /\ ev' = Event("checkAuth", r, token, "canonical")
    /\ localStorage' = debugLog(localStorage)

\* mutant of CheckAuthCanonical: a backup token that differs from the
\* canonical one is preferred and copied over it
CheckAuthCanonical_b(r, token) ==
    LET backupToken == getItem(sessionStorage, "token_backup")
        used == IF Falsy(backupToken) THEN token ELSE backupToken
        ls1 == setItem(localStorage, "token", used)
        f == FetchStart(ls1)
    IN  /\ axiosHeaders' = setItem(axiosHeaders, "Authorization", Bearer(used))
        /\ loading' = f.loading
        /\ runs' = [runs EXCEPT ![r] = f.run]
        /\ ev' = Event("checkAuth", r, used, "canonical")
        /\ localStorage' = debugLog(ls1)

\* lines 127-131: token found in localStorage
CheckAuthCanonical(r, token) ==
    LET f == FetchStart(localStorage)
    IN  /\ axiosHeaders' = setItem(axiosHeaders, "Authorization", Bearer(token))
        /\ loading' = f.loading
        /\ runs' = [runs EXCEPT ![r] = f.run]
        /\ ev' = Event("checkAuth", r, token, "canonical")
        /\ localStorage' = debugLog(localStorage)

\* the effect of lines 101-139: React runs it after the first render and
\* after every render in which tokenSet differs from the value it last ran
\* with; the effects of the screens below the provider run before it
CheckAuth ==
    /\ cb.pc # "mounted"
    /\ effectDeps # <<tokenSet>>
    /\ Started < MaxRuns
    /\ effectDeps' = <<tokenSet>>
    /\ LET r == Started + 1
           token == getItem(localStorage, "token")
           backupToken == getItem(sessionStorage, "token_backup")
       IN    IF Falsy(token)
             THEN IF ~Falsy(backupToken)
                  THEN \E throws \in BOOLEAN :
                          CheckAuthBackup(r, backupToken, throws)
                  ELSE CheckAuthNone(r)
             ELSE CheckAuthCanonical(r, token)
    /\ UNCHANGED <<sessionStorage, user, error, tokenSet, logouts, now, cb>>

\* ---------------------------------------------------------------------
\* Session restorer: the continuation of fetchCurrentUser (173-224)
\* ---------------------------------------------------------------------

\* err.message of the error axios rejects with
AxiosMessage(outcome) ==
    IF outcome = "neterr" THEN "Network Error"
    ELSE "Request failed with status code"

\* mutant of LocalStorageAfterFetch: the token is removed on every response
\* that is not ok
LocalStorageAfterFetch_m(outcome, ls) ==
    IF outcome \in {"ok_true", "ok_false"} THEN ls ELSE removeItem(ls, "token")

\* localStorage after the response of fetch was handled, lines 177-197: the
\* removeItem of line 195 is commented out, no branch writes the storage
LocalStorageAfterFetch(outcome, ls) == ls

\* mutant of UserAfterResponse: the user object of the response is dropped
UserAfterResponse_m(outcome, respUser, cur) == cur

\* mutant of UserAfterResponse: a 200 response with success:false also
\* populates the user
UserAfterResponse_n(outcome, respUser, cur) ==
    IF outcome \in {"ok_true", "ok_false"} THEN respUser ELSE cur

\* user after a response of GET /api/auth/me: setUser(data.user) of lines
\* 181-182 and 209-210, no other branch calls setUser
UserAfterResponse(outcome, respUser, cur) ==
    IF outcome = "ok_true" THEN respUser ELSE cur

\* error after the response of fetch: setError of line 186
ErrorAfterFetch(outcome, cur) ==
    IF outcome = "ok_false" THEN "Failed to get user data" ELSE cur

\* error after the response of the axios fallback: a rejection lands in the
\* catch of lines 213-220
ErrorAfterAxios(outcome, cur) ==
    IF outcome \in {"ok_true", "ok_false"} THEN cur ELSE AxiosMessage(outcome)

\* the Authorization header axios attaches to a request
DefaultBearer(hdr) ==
    IF "Authorization" \in DOMAIN hdr THEN hdr["Authorization"] ELSE <<>>

\* mutant of FetchFailed: a failed fetch resets the session before the
\* fallback request is made
FetchFailed_m(r) ==
    /\ runs' = [runs EXCEPT ![r].pc = "axios",
                            ![r].bearer = DefaultBearer(axiosHeaders),
                            ![r].reqs = @ + 1]
    /\ localStorage' = debugLog(localStorage)
    /\ user' = Null
    /\ loading' = FALSE
    /\ UNCHANGED error

\* lines 198-205: fetch rejected, the same GET is issued again through axios
FetchFailed(r) ==
    /\ runs' = [runs EXCEPT ![r].pc = "axios",
                            ![r].bearer = DefaultBearer(axiosHeaders),
                            ![r].reqs = @ + 1]
    /\ localStorage' = debugLog(localStorage)
    /\ UNCHANGED <<user, error, loading>>

\* the response of fetch arrives for run r
FetchResponse(r, outcome, respUser) ==
    /\ runs[r].pc = "fetch"
    /\ IF outcome = "neterr"
       THEN FetchFailed(r)
       ELSE /\ runs' = [runs EXCEPT ![r].pc = "done", ![r].bearer = <<>>]
            /\ user' = UserAfterResponse(outcome, respUser, user)
            /\ error' = ErrorAfterFetch(outcome, error)
            /\ localStorage' =
                  debugLog(LocalStorageAfterFetch(outcome, localStorage))
            /\ loading' = FALSE
    /\ ev' = Event("fetchResponse", r,
                   IF outcome = "ok_true" THEN respUser ELSE Null, outcome)
    /\ UNCHANGED <<sessionStorage, axiosHeaders, tokenSet, effectDeps,
                   logouts, now, cb>>

\* the response of the axios fallback arrives for run r
AxiosResponse(r, outcome, respUser) ==
    /\ runs[r].pc = "axios"
    /\ runs' = [runs EXCEPT ![r].pc = "done", ![r].bearer = <<>>]
    /\ user' = UserAfterResponse(outcome, respUser, user)
    /\ error' = ErrorAfterAxios(outcome, error)
    /\ loading' = FALSE
    /\ ev' = Event("axiosResponse", r,
                   IF outcome = "ok_true" THEN respUser ELSE Null, outcome)
    /\ localStorage' = debugLog(localStorage)
    /\ UNCHANGED <<sessionStorage, axiosHeaders, tokenSet, effectDeps,
                   logouts, now, cb>>

\* ---------------------------------------------------------------------
\* logout (233-257)
\* ---------------------------------------------------------------------

\* logout up to the await of line 237
LogoutCall ==
    /\ logouts.calls < MaxLogout
    /\ logouts' = [calls |-> logouts.calls + 1, inflight |-> logouts.inflight + 1]
    /\ ev' = Event("logout", 0, Null, "none")
    /\ localStorage' = debugLog(localStorage)
    /\ UNCHANGED <<sessionStorage, axiosHeaders, user, loading,
                   error, tokenSet, effectDeps, runs, now, cb>>

\* mutant of LogoutStores: the catch branch only records the error
LogoutStores_m(ok, ls, ss, hdr, u, e) ==
    IF ok
    THEN [ls |-> removeItem(removeItem(ls, "token"), "token_timestamp"),
          ss |-> removeItem(ss, "token_backup"),
          hdr |-> removeItem(hdr, "Authorization"),
          user |-> Null, error |-> e]
    ELSE [ls |-> ls, ss |-> ss, hdr |-> hdr, user |-> u,
          error |-> "Failed to logout"]

\* mutant of LogoutStores: the catch branch forgets the backup copy
LogoutStores_b(ok, ls, ss, hdr, u, e) ==
    IF ok
    THEN [ls |-> removeItem(removeItem(ls, "token"), "token_timestamp"),
          ss |-> removeItem(ss, "token_backup"),
          hdr |-> removeItem(hdr, "Authorization"),
          user |-> Null, error |-> e]
    ELSE [ls |-> removeItem(ls, "token"),
          ss |-> ss,
          hdr |-> removeItem(hdr, "Authorization"),
          user |-> Null, error |-> "Failed to logout"]

\* what logout leaves behind: lines 238-245 when the call succeeded, the
\* catch of lines 247-256 when it failed
LogoutStores(ok, ls, ss, hdr, u, e) ==
    IF ok
    THEN [ls |-> removeItem(removeItem(ls, "token"), "token_timestamp"),
          ss |-> removeItem(ss, "token_backup"),
          hdr |-> removeItem(hdr, "Authorization"),
          user |-> Null, error |-> e]
    ELSE [ls |-> removeItem(ls, "token"),
          ss |-> removeItem(ss, "token_backup"),
          hdr |-> removeItem(hdr, "Authorization"),
          user |-> Null, error |-> "Failed to logout"]

\* the response of GET /api/auth/logout arrives
LogoutResponse(ok) ==
    /\ logouts.inflight > 0
    /\ logouts' = [logouts EXCEPT !.inflight = @ - 1]
    /\ LET w == LogoutStores(ok, localStorage, sessionStorage, axiosHeaders,
                             user, error)
       IN  /\ localStorage' = debugLog(w.ls)
           /\ sessionStorage' = w.ss
           /\ axiosHeaders' = w.hdr
           /\ user' = w.user
           /\ error' = w.error
    /\ ev' = Event("logoutResponse", 0, Null, IF ok THEN "ok" ELSE "failed")
    /\ UNCHANGED <<loading, tokenSet, effectDeps, runs, now, cb>>


\* ---------------------------------------------------------------------
\* Redirect-completion handler: the effect of the AuthCallback screen in
\* its three revisions, "page" (src/pages/AuthCallback.tsx), "temp"
\* (unnamed/part_000) and "direct" (unnamed/part_001)
\* ---------------------------------------------------------------------

Variants == {"page", "temp", "direct"}

\* params.get("token"): null without the parameter, "" for `?token=`
UrlTokens == Tokens \cup {Null, Empty}

\* destinations of navigate and of window.location.href
Dashboard == [path |-> "/dashboard", emergencyToken |-> Null]
Login == [path |-> "/login", emergencyToken |-> Null]
Emergency(token) == [path |-> "/dashboard", emergencyToken |-> token]

\* the handler setting its position, with a navigation, a call of setToken,
\* an error message or a storage write that threw, where it has one
\* the positions in which a setTimeout callback is pending
TimerStages == {"timer", "timer1", "timer2", "timerLogin"}

\* the screen c after a step of the handler that ends in position pc: a
\* timer it schedules fires after the timers scheduled before it
CbStepOf(c, pc, navs, calls, msg, threw) ==
    LET q == c.queue \o (IF pc \in TimerStages THEN <<pc>> ELSE <<>>)
    IN  [c EXCEPT !.pc = IF q = <<>> THEN pc ELSE Head(q),
                  !.queue = IF q = <<>> THEN <<>> ELSE Tail(q),
                  !.nav = @ \o navs,
                  !.calls = @ \o calls,
                  !.error = IF msg = Null THEN @ ELSE msg,
                  !.threw = @ \/ threw]

CbStep(pc, navs, calls, msg, threw) == CbStepOf(cb, pc, navs, calls, msg, threw)

\* the provider's variables after the handler called setToken
CbSetToken(w) ==
    /\ now' = now + 1
    /\ localStorage' = w.ls
    /\ sessionStorage' = w.ss
    /\ axiosHeaders' = w.hdr
    /\ tokenSet' = w.flag

\* mutant of CallbackPage: setToken is called before the token is tested
CallbackPage_m(throwAt) ==
    /\ cb.variant = "page" /\ cb.pc = "mounted"
    /\ now < MaxSetToken
    /\ Falsy(cb.url) => throwAt = "none"
    /\ CbSetToken(SetTokenCall(cb.url, throwAt, localStorage, sessionStorage,
                               axiosHeaders, tokenSet, now + 1))
    /\ cb' = CbStep("done", IF Falsy(cb.url) THEN <<Login>> ELSE <<Dashboard>>,
                    <<cb.url>>, Null, throwAt # "none")
    /\ ev' = Event("callback", 0, cb.url,
                   IF Falsy(cb.url) THEN "/login" ELSE "/dashboard")
    /\ UNCHANGED <<user, loading, error, effectDeps, runs, logouts>>

\* mutant of CallbackPage: the token is dropped, the screen only navigates
CallbackPage_n(throwAt) ==
    /\ cb.variant = "page" /\ cb.pc = "mounted"
    /\ throwAt = "none"
    /\ cb' = CbStep("done", IF Falsy(cb.url) THEN <<Login>> ELSE <<Dashboard>>,
                    <<>>, Null, FALSE)
    /\ ev' = Event("callback", 0, cb.url,
                   IF Falsy(cb.url) THEN "/login" ELSE "/dashboard")
    /\ UNCHANGED <<now, localStorage, sessionStorage, axiosHeaders, tokenSet,
                   user, loading, error, effectDeps, runs, logouts>>

\* src/pages/AuthCallback.tsx 11-27: setToken(token) and navigate("/dashboard")
\* when the URL has a token, else navigate("/login")
CallbackPage(throwAt) ==
    /\ cb.variant = "page" /\ cb.pc = "mounted"
    /\ IF ~Falsy(cb.url)
       THEN /\ now < MaxSetToken
            /\ CbSetToken(SetTokenCall(cb.url, throwAt, localStorage,
                                       sessionStorage, axiosHeaders, tokenSet,
                                       now + 1))
            /\ cb' = CbStep("done", <<Dashboard>>, <<cb.url>>, Null,
                            throwAt # "none")
            /\ ev' = Event("callback", 0, cb.url, "/dashboard")
       ELSE /\ throwAt = "none"
            /\ cb' = CbStep("done", <<Login>>, <<>>, Null, FALSE)
            /\ ev' = Event("callback", 0, cb.url, "/login")
            /\ UNCHANGED <<now, localStorage, sessionStorage, axiosHeaders,
                           tokenSet>>
    /\ UNCHANGED <<user, loading, error, effectDeps, runs, logouts>>

\* unnamed/part_000 13-57, up to the setTimeout of line 25: the token is
\* parked in sessionStorage "temp_token"; a write that throws lands in the
\* catch of lines 52-56
TempSync(c, throws) ==
    /\ IF ~Falsy(c.url)
       THEN IF throws
            THEN /\ cb' = CbStepOf(c, "done", <<Login>>, <<>>,
                                   "Authentication process failed", TRUE)
                 /\ ev' = Event("callback", 0, c.url, "/login")
                 /\ UNCHANGED sessionStorage
            ELSE /\ sessionStorage' = setItem(sessionStorage, "temp_token", c.url)
                 /\ cb' = CbStepOf(c, "timer", <<>>, <<>>, Null, FALSE)
                 /\ ev' = Event("callback", 0, c.url, "timer")
       ELSE /\ ~throws
            /\ cb' = CbStepOf(c, "done", <<Login>>, <<>>,
                              "Authentication failed: No token received", FALSE)
            /\ ev' = Event("callback", 0, c.url, "/login")
            /\ UNCHANGED sessionStorage
    /\ UNCHANGED <<now, localStorage, axiosHeaders, tokenSet,
                   user, loading, error, effectDeps, runs, logouts>>

\* the effect of unnamed/part_000 (lines 12-60) after the first render
CallbackTemp(throws) ==
    /\ cb.variant = "temp" /\ cb.pc = "mounted"
    /\ TempSync(cb, throws)

\* unnamed/part_000 25-46, the timeout: setToken(token), the read-back of
\* localStorage, the recovery from "temp_token" (its write, when it throws,
\* ends the callback of the timer with an uncaught exception)
CallbackTempTimer(throwAt, recoveryThrows) ==
    /\ cb.variant = "temp" /\ cb.pc = "timer"
    /\ now < MaxSetToken
    /\ LET w == SetTokenCall(cb.url, throwAt, localStorage, sessionStorage,
                             axiosHeaders, tokenSet, now + 1)
           storedToken == getItem(w.ls, "token")
           tempToken == getItem(w.ss, "temp_token")
       IN  IF ~Falsy(storedToken)
           THEN /\ ~recoveryThrows
                /\ CbSetToken(w)
                /\ cb' = CbStep("done", <<Dashboard>>, <<cb.url>>, Null,
                                throwAt # "none")
                /\ ev' = Event("callback", 0, cb.url, "/dashboard")
           ELSE IF ~Falsy(tempToken)
                THEN IF recoveryThrows
                     THEN /\ CbSetToken(w)
                          /\ cb' = CbStep("crashed", <<>>, <<cb.url>>, Null, TRUE)
                          /\ ev' = Event("callback", 0, cb.url, "crashed")
                     ELSE /\ CbSetToken([w EXCEPT
                                 !.ls = setItem(w.ls, "token", tempToken)])
                          /\ cb' = CbStep("done", <<Dashboard>>, <<cb.url>>,
                                          Null, throwAt # "none")
                          /\ ev' = Event("callback", 0, cb.url, "/dashboard")
                ELSE /\ ~recoveryThrows
                     /\ CbSetToken(w)
                     /\ cb' = CbStep("done", <<Login>>, <<cb.url>>,
                             "Authentication failed: Could not store token",
                             throwAt # "none")
                     /\ ev' = Event("callback", 0, cb.url, "/login")
    /\ UNCHANGED <<user, loading, error, effectDeps, runs, logouts>>

\* unnamed/part_001 55-62: the token written to the stores directly, left at
\* the write that throws (caught by the inner try)
DirectWrites(token, throwAt, ls, ss, time) ==
    LET ls1 == setItem(ls, "token", token)
        ss1 == setItem(ss, "token_backup", token)
        ls2 == setItem(ls1, "token_timestamp", time)
    IN  CASE throwAt = "token" -> [ls |-> ls, ss |-> ss]
          [] throwAt = "token_backup" -> [ls |-> ls1, ss |-> ss]
          [] throwAt = "token_timestamp" -> [ls |-> ls1, ss |-> ss1]
          [] OTHER -> [ls |-> ls2, ss |-> ss1]

\* unnamed/part_001 35-65, up to the first setTimeout: without a token the
\* error state and the timer of navigate("/login"), with one the direct
\* writes; debugLog in both
DirectSync(c, throwAt) ==
    /\ IF Falsy(c.url)
       THEN /\ throwAt = "none"
            /\ localStorage' = debugLog(localStorage)
            /\ UNCHANGED sessionStorage
            /\ cb' = CbStepOf(c, "timerLogin", <<>>, <<>>,
                              "No authentication token received", FALSE)
       ELSE LET w == DirectWrites(c.url, throwAt, localStorage,
                                  sessionStorage, now)
            IN  /\ localStorage' = debugLog(w.ls)
                /\ sessionStorage' = w.ss
                /\ cb' = CbStepOf(c, "timer1", <<>>, <<>>, Null,
                                  throwAt # "none")
    /\ ev' = Event("callback", 0, c.url, "timer")
    /\ UNCHANGED <<now, axiosHeaders, tokenSet,
                   user, loading, error, effectDeps, runs, logouts>>

\* the effect of unnamed/part_001 (lines 34-112) after the first render
CallbackDirect(throwAt) ==
    /\ cb.variant = "direct" /\ cb.pc = "mounted"
    /\ DirectSync(cb, throwAt)

\* unnamed/part_001 46: the timer of the screen without a token
CallbackDirectLogin ==
    /\ cb.variant = "direct" /\ cb.pc = "timerLogin"
    /\ cb' = CbStep("done", <<Login>>, <<>>, Null, FALSE)
    /\ ev' = Event("callback", 0, cb.url, "/login")
    /\ UNCHANGED <<now, localStorage, sessionStorage, axiosHeaders, tokenSet,
                   user, loading, error, effectDeps, runs, logouts>>

\* unnamed/part_001 65-79, the first timeout: the read-back, the second
\* write when the token is missing (uncaught when it throws), setToken
CallbackDirectTimer1(retryThrows, throwAt) ==
    /\ cb.variant = "direct" /\ cb.pc = "timer1"
    /\ now < MaxSetToken
    /\ LET storedToken == getItem(localStorage, "token")
       IN  IF Falsy(storedToken) /\ retryThrows
           THEN /\ throwAt = "none"
                /\ localStorage' = debugLog(localStorage)
                /\ cb' = CbStep("crashed", <<>>, <<>>, Null, TRUE)
                /\ ev' = Event("callback", 0, cb.url, "crashed")
                /\ UNCHANGED <<now, sessionStorage, axiosHeaders, tokenSet>>
           ELSE /\ ~retryThrows
                /\ CbSetToken(SetTokenCall(cb.url, throwAt,
                        IF Falsy(storedToken)
                        THEN setItem(localStorage, "token", cb.url)
                        ELSE localStorage,
                        sessionStorage, axiosHeaders, tokenSet, now + 1))
                /\ cb' = CbStep("timer2", <<>>, <<cb.url>>, Null,
                                throwAt # "none")
                /\ ev' = Event("callback", 0, cb.url, "timer")
    /\ UNCHANGED <<user, loading, error, effectDeps, runs, logouts>>

\* unnamed/part_001 82-101, the second timeout: the final read-back, then
\* navigate("/dashboard") or the reload on /dashboard?emergencyToken=
CallbackDirectTimer2 ==
    /\ cb.variant = "direct" /\ cb.pc = "timer2"
    /\ LET finalCheck == getItem(localStorage, "token")
       IN  IF ~Falsy(finalCheck)
           THEN /\ cb' = CbStep("done", <<Dashboard>>, <<>>, Null, FALSE)
                /\ ev' = Event("callback", 0, cb.url, "/dashboard")
           ELSE /\ cb' = CbStep("done", <<Emergency(cb.url)>>, <<>>,
                                "Failed to store authentication token", FALSE)
                /\ ev' = Event("callback", 0, cb.url, "emergency")
    /\ localStorage' = debugLog(localStorage)
    /\ UNCHANGED <<now, sessionStorage, axiosHeaders, tokenSet,
                   user, loading, error, effectDeps, runs, logouts>>

\* the effect of the part_000 and part_001 screens runs again: its
\* dependency setToken is a new function in every render of the provider
\* (AuthContext.tsx 66, 261), so a render of the provider with a changed
\* state, while the screen is still mounted with a timer pending and no
\* navigation issued, runs handleCallback again; the effect has no cleanup
\* and the timers scheduled before stay scheduled
CallbackRerun ==
    /\ cb.variant \in {"temp", "direct"}
    /\ cb.pc \in TimerStages
    /\ cb.nav = <<>>
    /\ cb.seen # <<user, loading, error, tokenSet>>
    /\ cb.reruns < MaxReruns
    /\ LET c == [cb EXCEPT !.queue = <<cb.pc>> \o @,
                           !.pc = "mounted",
                           !.seen = <<user, loading, error, tokenSet>>,
                           !.reruns = @ + 1]
       IN  \/ /\ cb.variant = "temp"
              /\ \E throws \in BOOLEAN : TempSync(c, throws)
           \/ /\ cb.variant = "direct"
              /\ \E throwAt \in ThrowPoints : DirectSync(c, throwAt)

\* ---------------------------------------------------------------------
\* The Login screen (unnamed/part_002), route /login of App
\* (unnamed/part_003 671-693): what it renders for a session state
\* ---------------------------------------------------------------------

\* mutant of LoginScreen: the user is tested before loading
LoginScreen_m(u, l) ==
    IF u # Null THEN "/dashboard"
    ELSE IF l THEN "spinner" ELSE "form"

\* lines 9-19 and the form of lines 21-78
LoginScreen(u, l) ==
    IF l THEN "spinner"
    ELSE IF u # Null THEN "/dashboard" ELSE "form"

\* ---------------------------------------------------------------------
\* The dashboard route: <PrivateRoute><Dashboard /></PrivateRoute>
\* (unnamed/part_003 679-686), loaded on /dashboard?emergencyToken=t, where
\* the part_001 handler sends the browser when its final check finds no
\* token in canonical storage
\* ---------------------------------------------------------------------

\* components/PrivateRoute, as the routing rule states it: the loading
\* indicator while the session is unknown, the screen when authenticated,
\* the login screen when unauthenticated
PrivateRoute(u, l) ==
    IF l THEN "spinner"
    ELSE IF u # Null THEN "children" ELSE "/login"

\* the values of User.authProvider and the providers with a mailbox
Providers == {"google", "microsoft"}
Profiles ==
    [authProvider : Providers \cup {Null}, google : BOOLEAN, microsoft : BOOLEAN]

\* fetchEmails(provider) up to its request, lines 93-140, in a render whose
\* activeProvider is c.active: the provider it marks active (setActiveProvider
\* takes effect in the next render), the provider it requests, the mailbox
\* endpoint or the error it throws
FetchEmailsCall(provider, c, ls) ==
    LET token == getItem(ls, "token")
        marked ==
            IF provider # Null THEN provider
            ELSE IF c.active # Null THEN c.active
            ELSE IF c.profile.authProvider # Null THEN c.profile.authProvider
            ELSE IF c.profile.google THEN "google"
            ELSE IF c.profile.microsoft THEN "microsoft"
            ELSE "google"
        currentProvider ==
            IF provider # Null THEN provider
            ELSE IF c.active # Null THEN c.active
            ELSE c.profile.authProvider
    IN  IF Falsy(token)
        THEN [active |-> c.active, mail |-> "notoken",
              error |-> "Authentication token not found"]
        ELSE IF currentProvider = "google"
        THEN [active |-> marked, mail |-> "gmail", error |-> Null]
        ELSE IF currentProvider = "microsoft"
        THEN [active |-> marked, mail |-> "outlook", error |-> Null]
        ELSE [active |-> marked, mail |-> "unknown",
              error |-> "Unknown auth provider"]

\* the effect of Dashboard, lines 61-73: the default credential is set from
\* canonical storage and fetchEmails() is called; the query string is not
\* read
DashboardMount ==
    /\ cb.variant = "dashboard" /\ cb.pc = "route"
    /\ PrivateRoute(user, loading) = "children"
    /\ LET token == getItem(localStorage, "token")
       IN  axiosHeaders' = IF Falsy(token) THEN axiosHeaders
                           ELSE setItem(axiosHeaders, "Authorization",
                                        Bearer(token))
    /\ LET f == FetchEmailsCall(Null, cb, localStorage)
       IN  /\ cb' = [cb EXCEPT !.pc = "done", !.active = f.active,
                               !.mail = f.mail, !.error = f.error,
                               !.mails = @ + 1]
           /\ ev' = Event("dashboard", 0, cb.url, f.mail)
    /\ UNCHANGED <<localStorage, sessionStorage, user, loading, error,
                   tokenSet, effectDeps, runs, logouts, now>>

\* a click on a provider button (lines 287-310, shown for a provider the
\* user has) or on refresh (lines 355, 557)
FetchEmails(provider) ==
    /\ cb.variant = "dashboard" /\ cb.pc = "done" /\ cb.nav = <<>>
    /\ cb.mails < MaxEmailCalls
    /\ provider = "google"
          => (cb.profile.google \/ cb.profile.authProvider = "google")
    /\ provider = "microsoft"
          => (cb.profile.microsoft \/ cb.profile.authProvider = "microsoft")
    /\ LET f == FetchEmailsCall(provider, cb, localStorage)
       IN  /\ cb' = [cb EXCEPT !.active = f.active, !.mail = f.mail,
                               !.error = f.error, !.mails = @ + 1]
           /\ ev' = Event("fetchEmails", 0, provider, f.mail)
    /\ UNCHANGED <<localStorage, sessionStorage, axiosHeaders, user, loading,
                   error, tokenSet, effectDeps, runs, logouts, now>>

\* the route sends an unauthenticated session to the login screen
DashboardRedirect ==
    /\ cb.variant = "dashboard" /\ cb.pc = "route"
    /\ PrivateRoute(user, loading) = "/login"
    /\ cb' = CbStep("done", <<Login>>, <<>>, Null, FALSE)
    /\ ev' = Event("dashboard", 0, cb.url, "/login")
    /\ UNCHANGED <<localStorage, sessionStorage, axiosHeaders, user, loading,
                   error, tokenSet, effectDeps, runs, logouts, now>>

\* ---------------------------------------------------------------------
\* Specification
\* ---------------------------------------------------------------------

Next ==
    \/ \E token \in TokenArgs, throwAt \in ThrowPoints :
          SetToken(token, throwAt)
    \/ CheckAuth
    \/ \E r \in 1..MaxRuns, outcome \in Outcomes, respUser \in Users : FetchResponse(r, outcome, respUser)
    \/ \E r \in 1..MaxRuns, outcome \in Outcomes, respUser \in Users : AxiosResponse(r, outcome, respUser)
    \/ LogoutCall
    \/ \E ok \in BOOLEAN : LogoutResponse(ok)

Spec == Init /\ [][Next]_vars

\* a first visit: nothing is stored in either storage
InitEmpty ==
    /\ Init
    /\ localStorage = EmptyStore
    /\ sessionStorage = EmptyStore

SpecEmpty == InitEmpty /\ [][Next]_vars

\* the provider with every storage write accepted and every request
\* answered: React runs a pending effect, and a request that is in flight
\* eventually returns or fails
NextLive ==
    \/ \E token \in Tokens : SetToken(token, "none")
    \/ CheckAuth
    \/ \E r \in 1..MaxRuns, outcome \in Outcomes : FetchResponse(r, outcome, "u1")
    \/ \E r \in 1..MaxRuns, outcome \in Outcomes : AxiosResponse(r, outcome, "u1")
    \/ LogoutCall
    \/ \E ok \in BOOLEAN : LogoutResponse(ok)

Fairness ==
    /\ WF_vars(CheckAuth)
    /\ WF_vars(\E r \in 1..MaxRuns, outcome \in Outcomes :
                  FetchResponse(r, outcome, "u1"))
    /\ WF_vars(\E r \in 1..MaxRuns, outcome \in Outcomes :
                  AxiosResponse(r, outcome, "u1"))

SpecLive == Init /\ [][NextLive]_vars /\ Fairness

\* a first visit on which every storage write of setToken is accepted
SpecAccepted == InitEmpty /\ [][NextLive]_vars

\* a page load on /auth-callback: the effect of the screen runs before the
\* effect of the provider above it, no other screen is mounted
InitCallback ==
    /\ InitProvider
    /\ \E variant \in Variants, url \in UrlTokens :
          cb = Callback(variant, url, "mounted")

NextCallback ==
    \/ \E throwAt \in ThrowPoints : CallbackPage(throwAt)
    \/ \E throws \in BOOLEAN : CallbackTemp(throws)
    \/ \E throwAt \in ThrowPoints, recoveryThrows \in BOOLEAN :
          CallbackTempTimer(throwAt, recoveryThrows)
    \/ \E throwAt \in ThrowPoints : CallbackDirect(throwAt)
    \/ CallbackDirectLogin
    \/ \E retryThrows \in BOOLEAN, throwAt \in ThrowPoints :
          CallbackDirectTimer1(retryThrows, throwAt)
    \/ CallbackDirectTimer2
    \/ CheckAuth
    \/ \E r \in 1..MaxRuns, outcome \in Outcomes, respUser \in Users :
          FetchResponse(r, outcome, respUser)
    \/ \E r \in 1..MaxRuns, outcome \in Outcomes, respUser \in Users :
          AxiosResponse(r, outcome, respUser)

SpecCallback == InitCallback /\ [][NextCallback]_vars

\* ---------------------------------------------------------------------
\* A session with a stable valid token: both storages hold the same token,
\* the consumer hands the provider that same token again, and the server
\* accepts it, answering GET /api/auth/me with the user of the token sent
\* (the fetch itself may fail and be repeated through axios)
\* ---------------------------------------------------------------------

\* data.user of the response (lines 181-182, 209-210) to a request carrying
\* the credential bearer
UserOf(bearer) == IF bearer = Bearer("t1") THEN "u1" ELSE "u2"

InitStable ==
    /\ Init
    /\ ~Falsy(getItem(localStorage, "token"))
    /\ getItem(sessionStorage, "token_backup") = getItem(localStorage, "token")

NextStable ==
    \/ SetToken(getItem(localStorage, "token"), "none")
    \/ CheckAuth
    \/ \E r \in 1..MaxRuns, outcome \in {"ok_true", "neterr"} :
          FetchResponse(r, outcome, UserOf(runs[r].bearer))
    \/ \E r \in 1..MaxRuns :
          AxiosResponse(r, "ok_true", UserOf(runs[r].bearer))

SpecStable == InitStable /\ [][NextStable]_vars

\* a page load on /dashboard?emergencyToken=t with no token in canonical
\* storage
InitEmergency ==
    /\ InitProvider
    /\ Falsy(getItem(localStorage, "token"))
    /\ \E t \in Tokens : cb = Callback("dashboard", t, "route")

NextEmergency ==
    \/ CheckAuth
    \/ \E r \in 1..MaxRuns, outcome \in Outcomes, respUser \in Users :
          FetchResponse(r, outcome, respUser)
    \/ \E r \in 1..MaxRuns, outcome \in Outcomes, respUser \in Users :
          AxiosResponse(r, outcome, respUser)
    \/ DashboardMount
    \/ DashboardRedirect

SpecEmergency == InitEmergency /\ [][NextEmergency]_vars

\* a page load on /dashboard by a user with any combination of the provider
\* fields
InitDashboard ==
    /\ InitProvider
    /\ \E profile \in Profiles :
          cb = [Callback("dashboard", Null, "route") EXCEPT !.profile = profile]

NextDashboard ==
    \/ CheckAuth
    \/ \E r \in 1..MaxRuns, outcome \in Outcomes :
          FetchResponse(r, outcome, "u1")
    \/ \E r \in 1..MaxRuns, outcome \in Outcomes :
          AxiosResponse(r, outcome, "u1")
    \/ DashboardMount
    \/ DashboardRedirect
    \/ \E provider \in Providers \cup {Null} : FetchEmails(provider)

SpecDashboard == InitDashboard /\ [][NextDashboard]_vars

\* a page load on /auth-callback where the effect of the screen may run
\* again
NextRerun ==
    \/ NextCallback
    \/ CallbackRerun

SpecRerun == InitCallback /\ [][NextRerun]_vars

\* ---------------------------------------------------------------------
\* Properties
\* ---------------------------------------------------------------------

\* the canonical token, the backup token and the default credential
Canonical == getItem(localStorage, "token")
IssuedAtKept ==
    /\ ("token_timestamp" \in DOMAIN localStorage')
           = ("token_timestamp" \in DOMAIN localStorage)
    /\ "token_timestamp" \in DOMAIN localStorage
           => localStorage'["token_timestamp"] = localStorage["token_timestamp"]
Backup == getItem(sessionStorage, "token_backup")
Responses == {"fetchResponse", "axiosResponse"}

\* C1, as stated: after setToken(t) with a nonempty t returns, a read of
\* canonical storage returns t, whatever the storage was before.
C1_ReadBackAlways ==
    (ev.op = "setToken" /\ ev.arg \in Tokens) => Canonical = ev.arg

\* C1, amended: after setToken(t) with a nonempty t returns, a read of
\* canonical storage returns t, provided localStorage accepted the write of
\* the "token" entry (a write that throws is swallowed by setToken and
\* leaves the previous value).
C1_ReadBackWhenWritten ==
    (ev.op = "setToken" /\ ev.arg \in Tokens /\ ev.outcome # "token")
        => Canonical = ev.arg

C1_Witness ==
    /\ ev.op = "setToken" /\ ev.arg = "t2" /\ ev.outcome = "token_backup"
    /\ Backup = "t1"
    /\ Canonical = "t2"

\* C2: setToken with an empty string or undefined changes neither canonical
\* storage, backup storage, the token-issued-at entry, the default
\* Authorization credential nor tokenSet, and starts no identity fetch.
C2_EmptyTokenIsNoOp ==
    [][(ev'.op = "setToken" /\ ev'.arg \in {Empty, Undefined})
          => /\ Canonical' = Canonical
             /\ IssuedAtKept
             /\ UNCHANGED <<sessionStorage, axiosHeaders, tokenSet,
                            effectDeps, runs>>]_vars

C2_Witness ==
    /\ ev.op = "setToken" /\ ev.arg = Empty
    /\ Canonical = "t1"
    /\ "Authorization" \in DOMAIN axiosHeaders

\* C3: when a round trip of the identity fetch ends with an HTTP-ok response
\* whose envelope has success:true, the run concludes with the user of that
\* response stored and loading false (authenticated).
C3_SuccessAuthenticates ==
    (ev.op \in Responses /\ ev.outcome = "ok_true")
        => /\ user = ev.arg
           /\ user \in Users
           /\ loading = FALSE
           /\ runs[ev.run].pc = "done"

C3_Witness ==
    /\ ev.op = "fetchResponse" /\ ev.outcome = "ok_true"
    /\ now > 0
    /\ user = "u2"
    /\ ~loading

\* C4: after the identity fetch was answered with HTTP 401 or 403, canonical
\* and backup storage hold no token and the session is unauthenticated.
C4_RejectionDiscardsToken ==
    (ev.op = "fetchResponse" /\ ev.outcome \in {"s401", "s403"})
        => /\ Canonical = Null
           /\ Backup = Null
           /\ user = Null
           /\ loading = FALSE

\* C5: the handling of an identity-fetch outcome that is not an
\* authentication rejection (success:false, HTTP 500, a network failure of
\* the fetch, a failed or unsuccessful fallback request) leaves canonical
\* storage holding the token it held.
C5_TransientFailureKeepsToken ==
    [][(ev'.op \in Responses /\ ev'.outcome \in {"ok_false", "s500", "neterr"})
          => /\ Canonical' = Canonical
             /\ IssuedAtKept]_vars

C5_Witness ==
    /\ ev.op = "fetchResponse" /\ ev.outcome = "s500"
    /\ Canonical \in Tokens

\* C6: a restorer run that concludes with a failure that is not an
\* authentication rejection does not end in the state of a session without
\* a token (user absent, loading false, error absent).
C6_TransientFailureNotUnauthenticated ==
    (/\ ev.op \in Responses
     /\ ev.outcome \in {"ok_false", "s500", "neterr"}
     /\ runs[ev.run].pc = "done")
        => ~(user = Null /\ loading = FALSE /\ error = Null)

\* C7: a restorer run that finds no token in canonical storage and none in
\* backup storage sets loading to false, leaves the user as it was (absent)
\* and issues no request.
C7_NoTokenNoRequest ==
    [][(/\ ev'.op = "checkAuth"
        /\ "token" \notin DOMAIN localStorage
        /\ "token_backup" \notin DOMAIN sessionStorage)
          => /\ loading' = FALSE
             /\ user' = user
             /\ runs'[ev'.run] = [pc |-> "done", bearer |-> <<>>, reqs |-> 0]
             /\ \A q \in DOMAIN runs : q # ev'.run => runs'[q] = runs[q]
             /\ Canonical' = Null
             /\ IssuedAtKept
             /\ UNCHANGED <<sessionStorage, axiosHeaders, logouts>>]_vars

C7_Witness ==
    /\ ev.op = "checkAuth" /\ ev.outcome = "none"
    /\ Canonical = Null /\ Backup = Null
    /\ user = Null /\ ~loading
    /\ runs[ev.run].reqs = 0

\* what C8 asks of a run that promotes the backup token b
Promoted(r, b) ==
    /\ Canonical' = b
    /\ DefaultBearer(axiosHeaders') = Bearer(b)
    /\ runs'[r].pc = "fetch"
    /\ runs'[r].bearer = Bearer(b)
    /\ runs'[r].reqs = 1

\* C8, as stated: a restorer run that finds canonical storage empty and the
\* token b in backup storage writes b to canonical storage, makes b the
\* default Authorization credential and issues the identity fetch with b.
C8_BackupPromotedAlways ==
    [][(/\ ev'.op = "checkAuth"
        /\ "token" \notin DOMAIN localStorage
        /\ Backup \in Tokens)
          => Promoted(ev'.run, Backup)]_vars

\* C8, amended: the same, provided localStorage accepts the write of b (a
\* write that throws ends the run in the catch of checkAuth).
C8_BackupPromotedWhenWritten ==
    [][(/\ ev'.op = "checkAuth"
        /\ "token" \notin DOMAIN localStorage
        /\ Backup \in Tokens
        /\ ev'.outcome # "backup_throw")
          => Promoted(ev'.run, Backup)]_vars

C8_Witness ==
    /\ ev.op = "checkAuth" /\ ev.outcome = "backup"
    /\ Canonical = "t2" /\ Backup = "t2"
    /\ DefaultBearer(axiosHeaders) = Bearer("t2")
    /\ runs[ev.run].pc = "fetch" /\ runs[ev.run].bearer = Bearer("t2")

\* C9: a restorer run that found a token performs exactly one round trip to
\* GET /api/auth/me, whatever the outcome of that round trip.
C9_ExactlyOneRoundTrip ==
    \A r \in DOMAIN runs :
        /\ runs[r].pc \in {"fetch", "axios"} => runs[r].reqs = 1
        /\ (ev.op \in Responses /\ ev.run = r) => runs[r].reqs = 1

\* C10: after logout completes, whether the logout call succeeded or failed,
\* canonical and backup storage hold no token, the default Authorization
\* credential is removed and the user is absent.
C10_LogoutClears ==
    ev.op = "logoutResponse"
        => /\ "token" \notin DOMAIN localStorage
           /\ "token_backup" \notin DOMAIN sessionStorage
           /\ "Authorization" \notin DOMAIN axiosHeaders
           /\ user = Null

C10_Witness ==
    /\ ev.op = "logoutResponse" /\ ev.outcome = "failed"
    /\ "token_timestamp" \in DOMAIN localStorage
    /\ localStorage["token_timestamp"] > 0
    /\ Canonical = Null /\ Backup = Null

\* every entry of localStorage but the debug log is as it was
StorageKeptButLog ==
    \A k \in ((DOMAIN localStorage) \cup (DOMAIN localStorage')) \ {"auth_debug_logs"} :
        /\ k \in DOMAIN localStorage
        /\ k \in DOMAIN localStorage'
        /\ localStorage'[k] = localStorage[k]

\* C11: on a URL with a nonempty token, with every storage write accepted,
\* the handler calls setToken with exactly that token before it navigates,
\* navigates to /dashboard and never to /login.
C11_TokenGoesToDashboard ==
    (cb.url \in Tokens /\ ~cb.threw)
        => /\ \A i \in DOMAIN cb.nav : cb.nav[i] = Dashboard
           /\ cb.nav # <<>> => cb.calls = <<cb.url>>
           /\ cb.pc = "done" => cb.nav = <<Dashboard>>
           /\ cb.pc # "crashed"

C11_Witness ==
    /\ cb.variant = "page" /\ cb.url = "t1" /\ ~cb.threw
    /\ cb.pc = "done"
    /\ cb.calls = <<"t1">> /\ cb.nav = <<Dashboard>>
    /\ Canonical = "t1"

\* C12: whenever the handler navigates to /dashboard, canonical storage
\* holds the token taken from the URL.
C12_DashboardOnlyAfterReadBack ==
    (ev.op = "callback" /\ ev.outcome = "/dashboard") => Canonical = cb.url

\* C13, as stated: on a URL without a token the handler navigates to the
\* login screen, calls setToken not at all and leaves every storage entry
\* as it was.
C13_NoTokenNoWrite ==
    [][(ev'.op = "callback" /\ cb.url \in {Null, Empty})
          => /\ localStorage' = localStorage
             /\ sessionStorage' = sessionStorage
             /\ cb'.calls = <<>>
             /\ \A i \in DOMAIN cb'.nav : cb'.nav[i] = Login
             /\ cb'.pc = "done" => cb'.nav = <<Login>>]_vars

\* C13, amended: on a URL without a token the handler navigates to the
\* login screen, calls setToken not at all and writes no token: canonical
\* storage, the token-issued-at entry, backup storage and the default
\* credential are as they were; the one entry it may write is the debug log
\* "auth_debug_logs" of the part_001 revision.
C13_NoTokenNoTokenWrite ==
    [][(ev'.op = "callback" /\ cb.url \in {Null, Empty})
          => /\ StorageKeptButLog
             /\ sessionStorage' = sessionStorage
             /\ UNCHANGED <<axiosHeaders, tokenSet>>
             /\ cb'.calls = <<>>
             /\ \A i \in DOMAIN cb'.nav : cb'.nav[i] = Login
             /\ cb'.pc = "done" => cb'.nav = <<Login>>]_vars

C13_Witness ==
    /\ ev.op = "callback" /\ cb.variant = "direct" /\ cb.url = Null
    /\ cb.pc = "done" /\ cb.nav = <<Login>> /\ cb.calls = <<>>
    /\ "auth_debug_logs" \in DOMAIN localStorage
    /\ Canonical = "t1"

\* C14: when the handler received a token and ends without canonical
\* storage holding it (the write was not confirmed, the recovery failed), it
\* has navigated to the login screen with an error message and not to the
\* authenticated screen.
C14_UnconfirmedGoesToLogin ==
    (/\ ev.op = "callback"
     /\ cb.url \in Tokens
     /\ cb.pc \in {"done", "crashed"}
     /\ Canonical # cb.url)
        => /\ cb.nav = <<Login>>
           /\ cb.error # Null

\* C15: the response of an identity fetch that has been superseded (a later
\* setToken has started a newer run of the restorer while the fetch was in
\* flight) changes neither the user identity nor the loading or error state.
C15_StaleResponseDiscarded ==
    [][(ev'.op \in Responses /\ ev'.run < Started)
          => UNCHANGED <<user, loading, error>>]_vars

\* C18: after a call of setToken with a nonempty token that completed its
\* writes, a new run of the restorer is due (the effect's dependency differs
\* from the value it last ran with), however many setToken calls were made
\* since the restorer last ran.
C18_SetTokenSchedulesRun ==
    (ev.op = "setToken" /\ ev.arg \in Tokens /\ ev.outcome = "none")
        => effectDeps # <<tokenSet>>

\* C19: a setToken(t) call that signals the restorer has already written t
\* to canonical storage; every identity fetch the restorer issues carries
\* the token canonical storage holds at that moment; and a restorer run that
\* directly follows a completed setToken(t) finds t in canonical storage and
\* issues its fetch with t.
C19_WriteBeforeFetch ==
    [][/\ (ev'.op = "setToken" /\ tokenSet' # tokenSet)
             => (ev'.arg \in Tokens /\ Canonical' = ev'.arg)
       /\ (ev'.op = "checkAuth" /\ runs'[ev'.run].pc = "fetch")
             => /\ Canonical' \in Tokens
                /\ runs'[ev'.run].bearer = <<"Bearer", Canonical'>>
       /\ (/\ ev.op = "setToken" /\ ev.arg \in Tokens /\ ev.outcome = "none"
           /\ ev'.op = "checkAuth")
             => /\ Canonical = ev.arg
                /\ runs'[ev'.run].pc = "fetch"
                /\ runs'[ev'.run].bearer = <<"Bearer", ev.arg>>]_vars

C19_Witness ==
    /\ ev.op = "checkAuth" /\ ev.run = 2 /\ now = 1
    /\ runs[1].bearer = <<"Bearer", "t1">>
    /\ runs[2].pc = "fetch" /\ runs[2].bearer = <<"Bearer", "t2">>
    /\ Canonical = "t2"

\* C20: the user identity is absent at start, and the only step that makes
\* it present or replaces it is the arrival of an identity-fetch response
\* with success:true, which sets it to the user of that response; no step of
\* setToken, of the restorer's start or of logout populates it, whatever the
\* storages hold.
C20_UserOnlyFromSuccessfulFetch ==
    /\ user = "<null>"
    /\ [][(user' # "<null>" /\ user' # user)
             => /\ ev'.op \in {"fetchResponse", "axiosResponse"}
                /\ ev'.outcome = "ok_true"
                /\ user' = ev'.arg]_vars

C20_Witness ==
    /\ ev.op = "fetchResponse" /\ ev.outcome = "ok_true" /\ ev.arg = "u1"
    /\ user = "u1"
    /\ Canonical = "t1"

\* every run of the restorer that was started has ended, and one was started
Quiescent ==
    /\ Started >= 1
    /\ \A r \in DOMAIN runs : runs[r].pc \in {"idle", "done"}

\* C16: with a stable token the server accepts, whenever all started runs
\* of the restorer have ended the session state is the one a single run
\* ends in, whether one run was made or several overlapping ones and in
\* whatever order their responses arrived: the user of the token, loading
\* false, no error, the token in canonical and in backup storage and as the
\* default credential; and no step changes canonical or backup storage.
C16_TwiceAsOnce ==
    /\ [](Quiescent
            => /\ user = (IF Canonical = "t1" THEN "u1" ELSE "u2")
               /\ loading = FALSE
               /\ error = "<null>"
               /\ Canonical \in Tokens
               /\ Backup = Canonical
               /\ "Authorization" \in DOMAIN axiosHeaders
               /\ axiosHeaders["Authorization"] = <<"Bearer", Canonical>>)
    /\ [][Canonical' = Canonical /\ Backup' = Backup]_vars

\* the response of run 1 arrives last, after run 2 was started and has ended
C16_Witness ==
    /\ Started = 2 /\ Quiescent
    /\ ev.op \in Responses /\ ev.run = 1
    /\ user = "u1" /\ Canonical = "t1"

\* C17: with a stable token the server accepts, once the user is present no
\* step of any run of the restorer, overlapping or not, leaves the session
\* unauthenticated (user absent with loading false).
C17_NoFlicker ==
    [][(user # "<null>") => ~(user' = "<null>" /\ loading' = FALSE)]_vars

\* authenticated while a second run, whose fetch failed, awaits its fallback
C17_Witness ==
    /\ user = "u1"
    /\ runs[1].pc = "done"
    /\ runs[2].pc = "axios"

\* C21: when the session is authenticated and an identity fetch is answered
\* with HTTP 401 or 403, the user identity is absent once that response has
\* been handled.
C21_RejectionClearsUser ==
    [][(/\ user # "<null>"
        /\ ev'.op \in {"fetchResponse", "axiosResponse"}
        /\ ev'.outcome \in {"s401", "s403"})
          => user' = "<null>"]_vars

\* C22: a run of the restorer that finds a token in canonical storage sets
\* the default credential to that token, issues its fetch with it and leaves
\* canonical and backup storage as they were, whatever the backup holds.
C22_CanonicalWins ==
    [][(ev'.op = "checkAuth" /\ Canonical \in Tokens)
          => /\ Canonical' = Canonical
             /\ sessionStorage' = sessionStorage
             /\ ev'.arg = Canonical
             /\ ev'.outcome = "canonical"
             /\ "Authorization" \in DOMAIN axiosHeaders'
             /\ axiosHeaders'["Authorization"] = <<"Bearer", Canonical>>
             /\ runs'[ev'.run].pc = "fetch"
             /\ runs'[ev'.run].bearer = <<"Bearer", Canonical>>]_vars

\* canonical t1, backup t2: the run has used t1
C22_Witness ==
    /\ ev.op = "checkAuth" /\ ev.arg = "t1"
    /\ Canonical = "t1" /\ Backup = "t2"
    /\ runs[ev.run].bearer = <<"Bearer", "t1">>

\* C23: the redirect handler never writes or removes the canonical storage
\* entry itself: a step of the handler changes it only through a call of
\* setToken.
C23_HandlerNeverWritesCanonical ==
    [][(ev'.op = "callback" /\ Canonical' # Canonical)
          => Len(cb'.calls) > Len(cb.calls)]_vars

\* C26: no exception escapes the redirect handler: it never ends in an
\* uncaught exception of one of its timer callbacks.
C26_NothingEscapes ==
    cb.pc # "crashed"

\* C27: a run of the handler that has ended has issued exactly one
\* navigation, to /dashboard or to /login.
C27_OneNavigation ==
    (cb.variant # "none" /\ cb.pc \in {"done", "crashed"})
        => /\ Len(cb.nav) = 1
           /\ cb.nav[1] \in {Dashboard, Login}

\* C24: in every state reached from empty storage the default Authorization
\* credential, when present, is the bearer credential of the token in
\* canonical storage, and it is absent when canonical storage is empty.
C24_OneActiveToken ==
    IF Canonical \in Tokens
    THEN "Authorization" \in DOMAIN axiosHeaders
            => axiosHeaders["Authorization"] = <<"Bearer", Canonical>>
    ELSE "Authorization" \notin DOMAIN axiosHeaders

\* C25: when every request eventually returns or fails, the session always
\* leaves the unknown state again (loading becomes false), and it goes back
\* to unknown only by a run of the restorer that a setToken call made since
\* the previous run has caused.
C25_Resolves ==
    /\ loading ~> ~loading
    /\ [][(~loading /\ loading')
             => /\ ev'.op = "checkAuth"
                /\ ev'.run > 1
                /\ now > 0
                /\ effectDeps # <<tokenSet>>]_vars

\* resolved in the error state, by the failure of both requests of a run
C25_Witness ==
    /\ ev.op = "axiosResponse" /\ ev.outcome = "neterr"
    /\ ~loading /\ error = "Network Error"

\* C28: on the login route the screen shows only the loading indicator
\* while loading is true, redirects to /dashboard when a user is present and
\* loading is false, and shows the login form only when no user is present
\* and loading is false.
C28_LoginFollowsSession ==
    /\ loading => LoginScreen(user, loading) = "spinner"
    /\ (~loading /\ user # "<null>")
          => LoginScreen(user, loading) = "/dashboard"
    /\ LoginScreen(user, loading) = "form"
          => (~loading /\ user = "<null>")

\* a user is present while a later run of the restorer is in flight
C28_Witness ==
    /\ loading /\ user = "u1"
    /\ LoginScreen(user, loading) = "spinner"

\* C29: after a page load on /dashboard?emergencyToken=t, once the dashboard
\* route has rendered its screen or redirected, canonical storage holds t.
C29_EmergencyTokenStored ==
    (cb.variant = "dashboard" /\ cb.pc = "done") => Canonical = cb.url

\* C30: once logout has completed with the user absent, the next step, when
\* it is not a setToken call, leaves the user absent: the response of an
\* identity fetch that was in flight does not bring the user back.
C30_StaysLoggedOut ==
    [][(/\ ev.op = "logoutResponse"
        /\ user = "<null>"
        /\ ev'.op # "setToken")
          => user' = "<null>"]_vars

\* C37: every fetchEmails call that has a token requests the mailbox of the
\* provider it marks as active (gmail for google, outlook for microsoft) and
\* does not fail with the unknown-provider error.
C37_RequestsActiveMailbox ==
    (ev.op \in {"dashboard", "fetchEmails"} /\ ev.outcome \notin {"notoken", "/login"})
        => /\ cb.mail # "unknown"
           /\ cb.active = "google" => cb.mail = "gmail"
           /\ cb.active = "microsoft" => cb.mail = "outlook"

\* C31: whenever an identity fetch of some run of the restorer is in flight,
\* loading is true.
C31_LoadingWhileInFlight ==
    (\E r \in DOMAIN runs : runs[r].pc \in {"fetch", "axios"}) => loading

\* C33: in every state reached from empty storage, localStorage has the
\* token-issued-at entry exactly when it has the token entry.
C33_TimestampIffToken ==
    ("token_timestamp" \in DOMAIN localStorage)
        <=> ("token" \in DOMAIN localStorage)

\* C35: after an identity fetch has returned success:true, the provider's
\* error value is absent.
C35_SuccessClearsError ==
    (ev.op \in {"fetchResponse", "axiosResponse"} /\ ev.outcome = "ok_true")
        => error = "<null>"

\* C36: a setToken call with a nonempty token either brings canonical
\* storage, backup storage, the token-issued-at entry and the default
\* credential to the token and signals the restorer, or changes none of them.
C36_AllOrNothing ==
    [][(ev'.op = "setToken" /\ ev'.arg \in Tokens)
          => \/ /\ Canonical' = ev'.arg
                /\ Backup' = ev'.arg
                /\ "token_timestamp" \in DOMAIN localStorage'
                /\ localStorage'["token_timestamp"] = now'
                /\ "Authorization" \in DOMAIN axiosHeaders'
                /\ axiosHeaders'["Authorization"] = <<"Bearer", ev'.arg>>
                /\ tokenSet' # tokenSet
             \/ /\ Canonical' = Canonical
                /\ IssuedAtKept
                /\ UNCHANGED <<sessionStorage, axiosHeaders, tokenSet>>]_vars

\* C34: in every state reached from empty storage with the storage writes
\* accepted, backup storage, when it holds a token, holds the token of
\* canonical storage.
C34_BackupFollowsCanonical ==
    Backup \in Tokens => Backup = Canonical

\* a second setToken call has replaced the token in both storages
C34_Witness ==
    /\ ev.op = "setToken" /\ ev.arg = "t2" /\ now = 2
    /\ Backup = "t2" /\ Canonical = "t2"

\* C32: for one arrival at the callback URL with a token, setToken is
\* invoked at most once and at most one navigation is issued.
C32_ProcessedOnce ==
    cb.url \in Tokens => (Len(cb.calls) <= 1 /\ Len(cb.nav) <= 1)

====
